---- MODULE Spec2Model ----
(***************************************************************************)
(* Model of the AI Money Manager backend (src/main.py, src/schemas.py).    *)
(*                                                                         *)
(* The store is three collections (category, account, transaction), each   *)
(* a sequence of documents in insertion order.  Every HTTP handler is one  *)
(* action of Spec (FastAPI runs one handler call to completion); SpecRace  *)
(* splits setup_defaults into its individual store calls, which is what    *)
(* the thread pool interleaves.  parse_text is modelled character by       *)
(* character: a text is a sequence of one-character strings and every      *)
(* regular expression of the handler is an operator over such sequences.   *)
(***************************************************************************)
EXTENDS Integers, Sequences, FiniteSets, TLC

VARIABLES
    category,     \* db["category"]: documents in insertion order
    account,      \* db["account"]
    transaction,  \* db["transaction"]
    req,          \* the last request to a store endpoint: [op, ...payload]
    resp,         \* the response to req
    parsed,       \* the last exchange of POST /api/parse: [text, result]
    now,          \* what datetime.now() reads
    pc,           \* SpecRace: per setup_defaults call, the store call it is at
    k             \* SpecRace: per call, index of the next default category

vars == <<category, account, transaction, req, resp, parsed, now, pc, k>>

store == <<category, account, transaction>>

(************************* bounds of the model *****************************)
MaxUserDocs == 1   \* categories / accounts created through POST, beyond the seed
MaxTxns == 3       \* transactions created
MaxLimit == 2      \* largest ?limit= tried
MaxNow == 1        \* clock readings are 0..MaxNow
NumCalls == 2      \* concurrent setup_defaults calls in SpecRace
MaxAmountFrags == 4  \* fragments per text of SpecAmount
MaxWordFrags == 3    \* fragments per keyword text of SpecAmount
MaxDateFrags == 3    \* fragments per text of SpecDate
MaxLineFrags == 3    \* fragments per text of SpecLines

Abs(x) == IF x < 0 THEN -x ELSE x

Min(a, b) == IF a < b THEN a ELSE b

(************************* the store facade ********************************)
\* create_document(collection, data): insert_one, the store assigning the id.
create_document(coll, data) ==
    Append(coll, [f \in (DOMAIN data) \cup {"_id"} |->
                    IF f = "_id" THEN Len(coll) + 1 ELSE data[f]])

\* the id create_document returns: str(inserted_id)
inserted_id(coll) == <<"str", Len(coll) + 1>>

\* serialize_document: ObjectId -> str, datetime -> isoformat, rest unchanged.
\* The two conversions are tagged so that a converted value is never the
\* stored value.
serialize_document(doc) ==
    [f \in DOMAIN doc |->
        IF f = "_id" THEN <<"str", doc[f]>>
        ELSE IF f = "date" THEN <<"iso", doc[f]>>
        ELSE doc[f]]

defaults == <<
    [name |-> "Groceries",   color |-> "#22c55e", icon |-> "shopping-basket"],
    [name |-> "Restaurants", color |-> "#f97316", icon |-> "utensils"],
    [name |-> "Transport",   color |-> "#06b6d4", icon |-> "car"],
    [name |-> "Rent",        color |-> "#6366f1", icon |-> "home"],
    [name |-> "Utilities",   color |-> "#14b8a6", icon |-> "zap"],
    [name |-> "Salary",      color |-> "#84cc16", icon |-> "banknote"],
    [name |-> "Other",       color |-> "#64748b", icon |-> "dots"] >>

CashAccount == [name |-> "Cash", type |-> "cash", currency |-> "USD"]

\* request payloads tried
CategoryCreate == { [name |-> "Pets", color |-> "#64748b", icon |-> "none"] }

AccountCreate == { [name |-> "Visa", type |-> "card", currency |-> "USD"] }

TransactionCreate ==
    { [date |-> 1, amount |-> -5, direction |-> "expense"],
      [date |-> 2, amount |-> 0,  direction |-> "income"],
      [date |-> 3, amount |-> 5,  direction |-> "expense"] }

RECURSIVE InsertAll(_, _, _)
\* for c in defaults[from..]: create_document("category", c)
InsertAll(coll, docs, from) ==
    IF from > Len(docs) THEN coll
    ELSE InsertAll(create_document(coll, docs[from]), docs, from + 1)

SeedCategories(coll) == IF Len(coll) = 0 THEN InsertAll(coll, defaults, 1) ELSE coll

\* the seed without its emptiness check
SeedAccountUnguarded(coll) == create_document(coll, CashAccount)

SeedAccount(coll) == IF Len(coll) = 0 THEN create_document(coll, CashAccount) ELSE coll

(************************* parse_text: text primitives *********************)
\* A text is a sequence of one-character strings.
Digit == {"0", "1", "2", "3", "4", "5", "6", "7", "8", "9"}

DigitChars == <<"0", "1", "2", "3", "4", "5", "6", "7", "8", "9">>

\* \s of re, and what str.strip() removes
Whitespace == {" ", "\n", "\t"}

UpperChars == <<"A", "B", "C", "D", "E", "F", "G", "H", "I", "J", "K", "L", "M",
                "N", "O", "P", "Q", "R", "S", "T", "U", "V", "W", "X", "Y", "Z">>

LowerChars == <<"a", "b", "c", "d", "e", "f", "g", "h", "i", "j", "k", "l", "m",
                "n", "o", "p", "q", "r", "s", "t", "u", "v", "w", "x", "y", "z">>

LowerOf == [c \in {UpperChars[i] : i \in 1..26} |->
               LowerChars[CHOOSE i \in 1..26 : UpperChars[i] = c]]

\* re.IGNORECASE compares the lower-cased characters
Lower(c) == IF c \in DOMAIN LowerOf THEN LowerOf[c] ELSE c

\* the character at position i; "" past either end
At(t, i) == IF i \in 1..Len(t) THEN t[i] ELSE ""

\* the first position from i on whose character is not in the class; TLC
\* tries the positions in increasing order
RunEnd(t, i, class) ==
    CHOOSE j \in i..(Len(t) + 1) :
        /\ At(t, j) \notin class
        /\ \A m \in i..(j - 1) : At(t, m) \in class

\* how many digits stand at positions i, i+1, ...
DigitRun(t, i) == IF i > Len(t) THEN 0 ELSE RunEnd(t, i, Digit) - i

\* \s* (greedy): the position after the whitespace standing at i
SkipSpace(t, i) == IF i > Len(t) THEN i ELSE RunEnd(t, i, Whitespace)

Letters == {LowerChars[i] : i \in 1..26} \cup {UpperChars[i] : i \in 1..26}

\* [a-z]* under IGNORECASE (greedy)
SkipLetters(t, i) == IF i > Len(t) THEN i ELSE RunEnd(t, i, Letters)

\* whether the characters of word stand at position i of t
StartsAt(t, i, word) ==
    /\ i >= 1
    /\ i + Len(word) - 1 <= Len(t)
    /\ \A j \in 1..Len(word) : t[i + j - 1] = word[j]

\* the same, whatever the case of the characters of t (word is lower case)
StartsAtAnyCase(t, i, word) ==
    /\ i >= 1
    /\ i + Len(word) - 1 <= Len(t)
    /\ \A j \in 1..Len(word) : Lower(t[i + j - 1]) = word[j]

\* re.search(word, t, re.IGNORECASE) for a lower-case word
ContainsAnyCase(t, word) == \E i \in 1..Len(t) : StartsAtAnyCase(t, i, word)

Range(t) == {t[i] : i \in 1..Len(t)}

LeastOf(S) == CHOOSE x \in S : \A y \in S : x <= y

\* str.strip(): from the first to the last character that is not whitespace
Strip(t) ==
    LET S == {i \in 1..Len(t) : t[i] \notin Whitespace}
    IN  IF S = {} THEN << >>
        ELSE SubSeq(t, CHOOSE i \in S : \A j \in S : i <= j,
                       CHOOSE i \in S : \A j \in S : i >= j)

\* str.replace(",", "")
RemoveCommas(t) == SelectSeq(t, LAMBDA c : c # ",")

(************************* parse_text: amount ******************************)
\* A match of a pattern is <<lo, hi>>, group(1) being t[lo..hi-1]; << >> is
\* no match.

\* \.[0-9]{2} at q: the position after it, 0 when it does not match
Decimals(t, q) == IF At(t, q) = "." /\ DigitRun(t, q + 1) >= 2 THEN q + 3 ELSE 0

RECURSIVE Thousands(_, _)
\* (?:,[0-9]{3})* at q, greedy, then \.[0-9]{2}.  Giving a group back leaves
\* the matcher on a comma, where \. fails, so only the greedy count can match.
Thousands(t, q) ==
    IF At(t, q) = "," /\ DigitRun(t, q + 1) >= 3 THEN Thousands(t, q + 4)
    ELSE Decimals(t, q)

\* [0-9]{1,3}(?:,[0-9]{3})*(?:\.[0-9]{2}) at p: three digits tried first,
\* then two, then one
Grouped(t, p) ==
    LET ends == [n \in 1..3 |-> IF DigitRun(t, p) >= n THEN Thousands(t, p + n) ELSE 0]
    IN  IF ends[3] # 0 THEN ends[3] ELSE IF ends[2] # 0 THEN ends[2] ELSE ends[1]

\* [0-9]+(?:\.[0-9]{2}) at p: a shorter run of digits is followed by a digit
Plain(t, p) == IF DigitRun(t, p) >= 1 THEN Decimals(t, p + DigitRun(t, p)) ELSE 0

\* the group ( Grouped | Plain ) at p
Number(t, p) ==
    IF Grouped(t, p) # 0 THEN <<p, Grouped(t, p)>>
    ELSE IF Plain(t, p) # 0 THEN <<p, Plain(t, p)>>
    ELSE << >>

\* \$\s*( number ) at q
SymbolBody(t, q) == IF At(t, q) = "$" THEN Number(t, SkipSpace(t, q + 1)) ELSE << >>

\* amount_patterns[0] at s: [-+]?\$\s*( number )
SymbolAmountAt(t, s) ==
    IF At(t, s) \in {"-", "+"} /\ SymbolBody(t, s + 1) # << >> THEN SymbolBody(t, s + 1)
    ELSE SymbolBody(t, s)

\* amount_patterns[1] at s: [-+]?( number )\s*(?:USD|usd|US\$)?  (what follows
\* the group is optional and never makes the match fail)
BareAmountAt(t, s) ==
    IF At(t, s) \in {"-", "+"} /\ Number(t, s + 1) # << >> THEN Number(t, s + 1)
    ELSE Number(t, s)

AmountAt(pat, t, s) ==
    IF pat = "symbol" THEN SymbolAmountAt(t, s) ELSE BareAmountAt(t, s)

\* re.search(pat, text): the match at the leftmost position that has one
SearchAmount(pat, t) ==
    LET S == {s \in 1..Len(t) : AmountAt(pat, t, s) # << >>}
    IN  IF S = {} THEN << >> ELSE AmountAt(pat, t, LeastOf(S))

amount_patterns_reversed == <<"bare", "symbol">>

amount_patterns == <<"symbol", "bare">>

DigitValue(c) == (CHOOSE i \in 1..10 : DigitChars[i] = c) - 1

RECURSIVE DigitsToInt(_)
DigitsToInt(s) ==
    IF s = << >> THEN 0
    ELSE 10 * DigitsToInt(SubSeq(s, 1, Len(s) - 1)) + DigitValue(s[Len(s)])

\* abs(float(amt_str)) of a literal with two decimals, in hundredths
FloatCents(s) == Abs(DigitsToInt(SelectSeq(s, LAMBDA c : c # ".")))

RECURSIVE AmountFrom(_, _)
\* for pat in amount_patterns[i..]: the first pattern that matches decides;
\* -1 stands for None
AmountFrom(t, i) ==
    IF i > Len(amount_patterns) THEN -1
    ELSE LET m == SearchAmount(amount_patterns[i], t)
         IN  IF m # << >> THEN FloatCents(RemoveCommas(SubSeq(t, m[1], m[2] - 1)))
             ELSE AmountFrom(t, i + 1)

\* re.search(r"(^|\s)-", text)
HasSign(t) ==
    \E i \in 1..Len(t) : t[i] = "-" /\ (i = 1 \/ t[i - 1] \in Whitespace)

(************************* parse_text: date ********************************)
AllDigits(t, lo, hi) == \A i \in lo..hi : At(t, i) \in Digit

\* date_patterns[0] at s: (\d{4}-\d{2}-\d{2})
IsoDateAt(t, s) ==
    IF /\ AllDigits(t, s, s + 3) /\ At(t, s + 4) = "-"
       /\ AllDigits(t, s + 5, s + 6) /\ At(t, s + 7) = "-"
       /\ AllDigits(t, s + 8, s + 9)
    THEN <<s, s + 10>> ELSE << >>

\* date_patterns[1] at s: (\d{2}/\d{2}/\d{4})
SlashDateAt(t, s) ==
    IF /\ AllDigits(t, s, s + 1) /\ At(t, s + 2) = "/"
       /\ AllDigits(t, s + 3, s + 4) /\ At(t, s + 5) = "/"
       /\ AllDigits(t, s + 6, s + 9)
    THEN <<s, s + 10>> ELSE << >>

MonthAbbrevs == <<
    <<"j", "a", "n">>, <<"f", "e", "b">>, <<"m", "a", "r">>, <<"a", "p", "r">>,
    <<"m", "a", "y">>, <<"j", "u", "n">>, <<"j", "u", "l">>, <<"a", "u", "g">>,
    <<"s", "e", "p">>, <<"o", "c", "t">>, <<"n", "o", "v">>, <<"d", "e", "c">> >>

MonthNames == <<
    <<"j", "a", "n", "u", "a", "r", "y">>,
    <<"f", "e", "b", "r", "u", "a", "r", "y">>,
    <<"m", "a", "r", "c", "h">>,
    <<"a", "p", "r", "i", "l">>,
    <<"m", "a", "y">>,
    <<"j", "u", "n", "e">>,
    <<"j", "u", "l", "y">>,
    <<"a", "u", "g", "u", "s", "t">>,
    <<"s", "e", "p", "t", "e", "m", "b", "e", "r">>,
    <<"o", "c", "t", "o", "b", "e", "r">>,
    <<"n", "o", "v", "e", "m", "b", "e", "r">>,
    <<"d", "e", "c", "e", "m", "b", "e", "r">> >>

\* date_patterns[2] at s, under IGNORECASE:
\* ((?:Jan|...|Dec)[a-z]*\s+\d{1,2},?\s+\d{4}).  Each greedy piece has one
\* length that lets the next piece match: all the letters, all the
\* whitespace, and a run of exactly one or two digits.
MonthDateAt(t, s) ==
    LET a == SkipLetters(t, s + 3)
        b == SkipSpace(t, a)
        n == DigitRun(t, b)
        c == IF At(t, b + n) = "," THEN b + n + 1 ELSE b + n
        d == SkipSpace(t, c)
    IN  IF /\ \E m \in 1..12 : StartsAtAnyCase(t, s, MonthAbbrevs[m])
           /\ b > a
           /\ n \in 1..2
           /\ d > c
           /\ DigitRun(t, d) >= 4
        THEN <<s, d + 4>> ELSE << >>

DateAt(pat, t, s) ==
    IF pat = "iso" THEN IsoDateAt(t, s)
    ELSE IF pat = "slash" THEN SlashDateAt(t, s)
    ELSE MonthDateAt(t, s)

\* re.search(dp, text, flags=re.IGNORECASE)
SearchDate(pat, t) ==
    LET S == {s \in 1..Len(t) : DateAt(pat, t, s) # << >>}
    IN  IF S = {} THEN << >> ELSE DateAt(pat, t, LeastOf(S))

date_patterns_slash_first == <<"slash", "iso", "month">>

date_patterns == <<"iso", "slash", "month">>

\* the formats of the strptime loop, each a sequence of directives and
\* literal characters; a blank of a format stands for \s+
date_formats == <<
    <<"%Y", "-", "%m", "-", "%d">>,
    <<"%d", "/", "%m", "/", "%Y">>,
    <<"%m", "/", "%d", "/", "%Y">>,
    <<"%b", " ", "%d", " ", "%Y">>,
    <<"%B", " ", "%d", " ", "%Y">>,
    <<"%b", " ", "%d", ",", " ", "%Y">>,
    <<"%B", " ", "%d", ",", " ", "%Y">> >>

NoField == [Y |-> 0, m |-> 0, d |-> 0]

\* The ways one directive (or literal) of a format matches raw at i, in the
\* order the regular expression of strptime tries them: <<next position,
\* field, value>>.
DirectiveMatches(tok, raw, i) ==
    LET two == IF AllDigits(raw, i, i + 1)
               THEN 10 * DigitValue(raw[i]) + DigitValue(raw[i + 1]) ELSE -1
        one == IF At(raw, i) \in Digit THEN DigitValue(raw[i]) ELSE -1
    IN  IF tok = "%Y" THEN
            IF AllDigits(raw, i, i + 3)
            THEN << <<i + 4, "Y", DigitsToInt(SubSeq(raw, i, i + 3))>> >> ELSE << >>
        ELSE IF tok = "%m" THEN
            \* 1[0-2]|0[1-9]|[1-9]
            (IF two \in 1..12 THEN << <<i + 2, "m", two>> >> ELSE << >>)
            \o (IF one \in 1..9 THEN << <<i + 1, "m", one>> >> ELSE << >>)
        ELSE IF tok = "%d" THEN
            \* 3[0-1]|[1-2]\d|0[1-9]|[1-9]| [1-9]
            (IF two \in 1..31 THEN << <<i + 2, "d", two>> >> ELSE << >>)
            \o (IF one \in 1..9 THEN << <<i + 1, "d", one>> >> ELSE << >>)
            \o (IF At(raw, i) = " " /\ At(raw, i + 1) \in Digit \ {"0"}
                THEN << <<i + 2, "d", DigitValue(raw[i + 1])>> >> ELSE << >>)
        ELSE IF tok = "%b" THEN
            LET M == {m \in 1..12 : StartsAtAnyCase(raw, i, MonthAbbrevs[m])}
            IN  IF M = {} THEN << >> ELSE << <<i + 3, "m", LeastOf(M)>> >>
        ELSE IF tok = "%B" THEN
            LET M == {m \in 1..12 : StartsAtAnyCase(raw, i, MonthNames[m])}
            IN  IF M = {} THEN << >>
                ELSE << <<i + Len(MonthNames[LeastOf(M)]), "m", LeastOf(M)>> >>
        ELSE IF tok = " " THEN
            \* \s+, longest first
            [j \in 1..(SkipSpace(raw, i) - i) |-> <<SkipSpace(raw, i) - j + 1, "", 0>>]
        ELSE IF At(raw, i) = tok THEN << <<i + 1, "", 0>> >> ELSE << >>

RECURSIVE MatchFormat(_, _, _, _, _), FirstMatch(_, _, _, _, _, _)
\* The regular expression of fmt[j..] against raw[i..], backtracking: the
\* fields of the first way to match the whole of raw, << >> when there is
\* none ("unconverted data remains" is a ValueError as well).
MatchFormat(raw, i, fmt, j, fields) ==
    IF j > Len(fmt) THEN (IF i = Len(raw) + 1 THEN <<fields>> ELSE << >>)
    ELSE FirstMatch(raw, fmt, j, fields, DirectiveMatches(fmt[j], raw, i), 1)

FirstMatch(raw, fmt, j, fields, ways, w) ==
    IF w > Len(ways) THEN << >>
    ELSE LET way == ways[w]
             f == IF way[2] = "" THEN fields ELSE [fields EXCEPT ![way[2]] = way[3]]
             r == MatchFormat(raw, way[1], fmt, j + 1, f)
         IN  IF r # << >> THEN r ELSE FirstMatch(raw, fmt, j, fields, ways, w + 1)

IsLeap(y) == y % 4 = 0 /\ (y % 100 # 0 \/ y % 400 = 0)

DaysInMonth(y, m) ==
    IF m = 2 THEN (IF IsLeap(y) THEN 29 ELSE 28)
    ELSE IF m \in {4, 6, 9, 11} THEN 30 ELSE 31

\* datetime.strptime(raw, fmt): the datetime, or << >> for ValueError
strptime(raw, fmt) ==
    LET r == MatchFormat(raw, 1, fmt, 1, NoField)
    IN  IF r = << >> THEN << >>
        ELSE IF r[1].Y >= 1 /\ r[1].d <= DaysInMonth(r[1].Y, r[1].m)
        THEN <<[year |-> r[1].Y, month |-> r[1].m, day |-> r[1].d, time |-> 0]>>
        ELSE << >>

RECURSIVE TryFormats(_, _)
\* for fmt in formats[f..]: the first format that parses raw
TryFormats(raw, f) ==
    IF f > Len(date_formats) THEN << >>
    ELSE IF strptime(raw, date_formats[f]) # << >> THEN strptime(raw, date_formats[f])
    ELSE TryFormats(raw, f + 1)

RECURSIVE DateFrom(_, _, _)
\* for dp in pats[i..]: the first pattern whose first match parses
DateFrom(pats, t, i) ==
    IF i > Len(pats) THEN << >>
    ELSE LET m == SearchDate(pats[i], t)
             d == IF m = << >> THEN << >>
                  ELSE TryFormats(RemoveCommas(SubSeq(t, m[1], m[2] - 1)), 1)
         IN  IF d # << >> THEN d ELSE DateFrom(pats, t, i + 1)

\* datetime.now(): the day of the run, at the time the clock reads
Today(clock) == [year |-> 2026, month |-> 11, day |-> 6, time |-> 1 + clock]

\* the fallback taken for every text
DateAlwaysNow(t, clock) == Today(clock)

\* date_found after the loop and its fallback
DateFound(t, clock) ==
    IF DateFrom(date_patterns, t, 1) # << >> THEN DateFrom(date_patterns, t, 1)[1]
    ELSE Today(clock)

\* datetime.isoformat()
isoformat(dt) == <<"iso", dt>>

(************************* parse_text: description, merchant, direction ****)
\* text.splitlines(): the pieces between line breaks (a text that ends in a
\* line break has no last piece)
SplitLines(t) ==
    LET brk == {i \in 1..Len(t) : t[i] = "\n"}
        starts == {1} \cup {i + 1 : i \in brk}
        from == {i \in starts : i <= Len(t)}
        nth(n) == CHOOSE i \in from : Cardinality({j \in from : j < i}) = n - 1
    IN  [n \in 1..Cardinality(from) |->
            SubSeq(t, nth(n), RunEnd(t, nth(n), {c \in Range(t) : c # "\n"}) - 1)]

\* [ln.strip() for ln in text.splitlines() if ln.strip()]
Lines(t) ==
    LET all == SplitLines(t)
        stripped == [i \in 1..Len(all) |-> Strip(all[i])]
    IN  SelectSeq(stripped, LAMBDA ln : ln # << >>)

\* \d{1,2}/\d{1,2}/\d{2,4} at s
SlashLikeAt(ln, s) ==
    \E a \in 1..2, b \in 1..2 :
        /\ AllDigits(ln, s, s + a - 1) /\ At(ln, s + a) = "/"
        /\ AllDigits(ln, s + a + 1, s + a + b) /\ At(ln, s + a + b + 1) = "/"
        /\ AllDigits(ln, s + a + b + 2, s + a + b + 3)

\* re.search(r"\d{1,2}/\d{1,2}/\d{2,4}|\d{4}-\d{2}-\d{2}", ln)
DateLike(ln) ==
    \E s \in 1..Len(ln) : SlashLikeAt(ln, s) \/ IsoDateAt(ln, s) # << >>

LabelWords == { <<"$">>, <<"u", "s", "d">>, <<"t", "o", "t", "a", "l">>,
                <<"a", "m", "o", "u", "n", "t">>,
                <<"b", "a", "l", "a", "n", "c", "e">> }

\* re.search(r"\$|USD|Total|Amount|Balance", ln, re.IGNORECASE)
HasLabel(ln) == \E w \in LabelWords : ContainsAnyCase(ln, w)

\* the lines that pass the date test alone
CandidatesDateOnly(lines) == SelectSeq(lines, LAMBDA ln : ~DateLike(ln))

\* the lines neither test filters out
Candidates(lines) == SelectSeq(lines, LAMBDA ln : ~DateLike(ln) /\ ~HasLabel(ln))

None == <<"None">>

\* description = candidates[0] if candidates else lines[0]
Description(t) ==
    IF Lines(t) = << >> THEN None
    ELSE IF Candidates(Lines(t)) # << >> THEN Candidates(Lines(t))[1]
    ELSE Lines(t)[1]

MerchantMax == 80

Separator == <<" ", "-", " ">>

\* description.split(" - ")[0]
BeforeSeparator(d) ==
    LET S == {i \in 1..Len(d) : StartsAt(d, i, Separator)}
    IN  IF S = {} THEN d ELSE SubSeq(d, 1, LeastOf(S) - 1)

\* description.split(" - ")[0][:80]
Merchant(d) ==
    IF d = None THEN None
    ELSE SubSeq(BeforeSeparator(d), 1, Min(MerchantMax, Len(BeforeSeparator(d))))

IncomeWords == { <<"r", "e", "f", "u", "n", "d">>, <<"c", "r", "e", "d", "i", "t">>,
                 <<"r", "e", "v", "e", "r", "s", "a", "l">>,
                 <<"d", "e", "p", "o", "s", "i", "t">>,
                 <<"s", "a", "l", "a", "r", "y">>, <<"i", "n", "c", "o", "m", "e">> }

\* re.search(r"refund|credit|reversal|deposit|salary|income", text, re.IGNORECASE)
HasIncomeWord(t) == \E w \in IncomeWords : ContainsAnyCase(t, w)

DirectionBySignOnly(t) == IF HasSign(t) THEN "income" ELSE "expense"

Direction(t) == IF HasSign(t) \/ HasIncomeWord(t) THEN "income" ELSE "expense"

\* the check made on the text as received
RejectedUnstripped(raw) == raw = << >>

\* text = req.text.strip(); if not text: raise HTTPException(400)
Rejected(raw) == Strip(raw) = << >>

\* the amount of the result: amount if amount is not None else 0.0
Amount(t) == IF AmountFrom(t, 1) = -1 THEN 0 ELSE AmountFrom(t, 1)

\* what parse_text answers to the text raw when the clock reads clock
ParseResult(raw, clock) ==
    LET t == Strip(raw)
    IN  IF Rejected(raw) THEN [status |-> 400, detail |-> "Text is required"]
        ELSE [status |-> 200,
              date |-> isoformat(DateFound(t, clock)),
              amount |-> Amount(t),
              direction |-> Direction(t),
              description |-> IF Description(t) = None THEN << >> ELSE Description(t),
              merchant |-> IF Merchant(Description(t)) = << >> THEN None
                           ELSE Merchant(Description(t))]

(************************* handlers, one call at a time ********************)
\* how many documents of coll carry the name of payload
Created(coll, payload) == Cardinality({i \in 1..Len(coll) : coll[i].name = payload.name})

create_account(payload) ==
    /\ Created(account, payload) < MaxUserDocs
    /\ req' = [op |-> "create_account", payload |-> payload]
    /\ account' = create_document(account, payload)
    /\ resp' = [status |-> 200, id |-> inserted_id(account)]
    /\ UNCHANGED <<category, transaction, parsed, now, pc, k>>

create_category(payload) ==
    /\ Created(category, payload) < MaxUserDocs
    /\ req' = [op |-> "create_category", payload |-> payload]
    /\ category' = create_document(category, payload)
    /\ resp' = [status |-> 200, id |-> inserted_id(category)]
    /\ UNCHANGED <<account, transaction, parsed, now, pc, k>>

setup_defaults ==
    /\ req' = [op |-> "setup_defaults"]
    /\ category' = SeedCategories(category)
    /\ account' = SeedAccount(account)
    /\ resp' = [status |-> 200, body |-> "ok"]
    /\ UNCHANGED <<transaction, parsed, now, pc, k>>

\* the payload stored as submitted
SignedAmount(data) == data

\* data["amount"] = abs(float(data["amount"]))
AbsAmount(data) == [data EXCEPT !.amount = Abs(data.amount)]

create_transaction(payload) ==
    /\ Len(transaction) < MaxTxns
    /\ req' = [op |-> "create_transaction", payload |-> payload]
    /\ transaction' = create_document(transaction, AbsAmount(payload))
    /\ resp' = [status |-> 200, id |-> inserted_id(transaction)]
    /\ UNCHANGED <<category, account, parsed, now, pc, k>>

RECURSIVE Ordered(_, _, _)
\* cursor.sort("date", dir) over the documents of coll at the indices S:
\* every arrangement in which each document is followed only by documents
\* that do not sort before it (the store does not order ties)
Ordered(coll, S, dir) ==
    IF S = {} THEN { << >> }
    ELSE UNION { { <<coll[i]>> \o rest : rest \in Ordered(coll, S \ {i}, dir) } :
                 i \in {i \in S : \A j \in S : dir * coll[i].date <= dir * coll[j].date} }

\* the sort with direction 1
SortAsc(coll) == Ordered(coll, 1..Len(coll), 1)

\* .sort("date", -1)
SortDesc(coll) == Ordered(coll, 1..Len(coll), -1)

\* cursor.limit(n): 0 is no limit, a negative n limits to -n
Limit(docs, n) ==
    IF n = 0 THEN docs ELSE SubSeq(docs, 1, Min(Abs(n), Len(docs)))

list_transactions(limit) ==
    /\ req' = [op |-> "list_transactions", limit |-> limit]
    /\ \E docs \in SortDesc(transaction) :
          resp' = [status |-> 200,
                   body |-> [i \in 1..Len(Limit(docs, limit)) |->
                               serialize_document(Limit(docs, limit)[i])]]
    /\ UNCHANGED <<category, account, transaction, parsed, now, pc, k>>

\* the clock moves between requests
Tick ==
    /\ now < MaxNow
    /\ now' = now + 1
    /\ UNCHANGED <<category, account, transaction, req, resp, parsed, pc, k>>

\* POST /api/parse: the whole handler; it reads the clock and nothing else
parse_text(text) ==
    /\ parsed' = [text |-> text, result |-> ParseResult(text, now)]
    /\ UNCHANGED <<category, account, transaction, req, resp, now, pc, k>>

(************************* setup_defaults, store call by store call ********)
\* FastAPI runs a def handler on a worker thread, so calls of setup_defaults
\* interleave between their store calls.
Calls == 1..NumCalls

Begin(c) ==
    /\ pc[c] = "idle"
    /\ pc' = [pc EXCEPT ![c] = "count_category"]
    /\ UNCHANGED <<category, account, transaction, req, resp, parsed, now, k>>

\* if db["category"].count_documents({}) == 0
CountCategory(c) ==
    /\ pc[c] = "count_category"
    /\ pc' = [pc EXCEPT ![c] = IF Len(category) = 0 THEN "insert_category"
                               ELSE "count_account"]
    /\ UNCHANGED <<category, account, transaction, req, resp, parsed, now, k>>

\* one turn of: for c in defaults: create_document("category", c)
InsertCategory(c) ==
    /\ pc[c] = "insert_category"
    /\ category' = create_document(category, defaults[k[c]])
    /\ k' = [k EXCEPT ![c] = k[c] + 1]
    /\ pc' = [pc EXCEPT ![c] = IF k[c] = Len(defaults) THEN "count_account"
                               ELSE "insert_category"]
    /\ UNCHANGED <<account, transaction, req, resp, parsed, now>>

\* if db["account"].count_documents({}) == 0
CountAccount(c) ==
    /\ pc[c] = "count_account"
    /\ pc' = [pc EXCEPT ![c] = IF Len(account) = 0 THEN "insert_account" ELSE "return"]
    /\ UNCHANGED <<category, account, transaction, req, resp, parsed, now, k>>

InsertAccount(c) ==
    /\ pc[c] = "insert_account"
    /\ account' = create_document(account, CashAccount)
    /\ pc' = [pc EXCEPT ![c] = "return"]
    /\ UNCHANGED <<category, transaction, req, resp, parsed, now, k>>

\* return {"status": "ok"}
Return(c) ==
    /\ pc[c] = "return"
    /\ pc' = [pc EXCEPT ![c] = "done"]
    /\ req' = [op |-> "setup_defaults"]
    /\ resp' = [status |-> 200, body |-> "ok"]
    /\ UNCHANGED <<category, account, transaction, parsed, now, k>>

(************************* texts tried *************************************)
RECURSIVE TextsOver(_, _)
\* the texts made of at most n fragments of F
TextsOver(F, n) ==
    IF n = 0 THEN { << >> }
    ELSE TextsOver(F, n - 1) \cup {p \o f : p \in TextsOver(F, n - 1), f \in F}

AmountFrags == {
    <<"$">>, <<"$", " ">>, <<" ">>,
    <<"1", ".", "0", "0">>,
    <<"-", "2", ",", "3", "4", "5", ".", "5", "0">>,
    <<"R", "e", "f", "u", "n", "d">> }

WordFrags == {
    <<"-">>, <<" ">>, <<"x">>,
    <<"C", "R", "E", "D", "I", "T">>,
    <<"R", "e", "v", "e", "r", "s", "a", "l">>,
    <<"d", "e", "p", "o", "s", "i", "t">>,
    <<"S", "a", "l", "a", "r", "y">>,
    <<"i", "n", "c", "o", "m", "e">> }

IsoText == <<"2", "0", "2", "5", "-", "0", "1", "-", "3", "1">>

DateFrags == {
    IsoText,
    <<"2", "0", "2", "5", "-", "1", "3", "-", "4", "5">>,
    <<"0", "1", "/", "0", "2", "/", "2", "0", "2", "5">>,
    <<"0", "3", "/", "1", "5", "/", "2", "0", "2", "5">>,
    <<"3", "1", "/", "0", "2", "/", "2", "0", "2", "5">>,
    <<"J", "a", "n", " ", "5", ",", " ", "2", "0", "2", "4">>,
    <<"F", "e", "b", "r", "u", "a", "r", "y", " ", "2", "9", " ", "2", "0", "2", "4">>,
    <<"S", "e", "p", "t", " ", "5", " ", "2", "0", "2", "5">> }

LongWord == [i \in 1..(MerchantMax + 1) |-> "a"]

ShopText == <<"S", "h", "o", "p">>

LineFrags == {
    <<"\n">>, <<" ">>, ShopText,
    <<" ", "-", " ", "M", "a", "i", "n">>,
    <<"T", "O", "T", "A", "L">>,
    <<"1", "/", "2", "/", "2", "5">>,
    LongWord }

AmountTexts == TextsOver(AmountFrags, MaxAmountFrags) \cup TextsOver(WordFrags, MaxWordFrags)

DateTexts == TextsOver(DateFrags, MaxDateFrags)

LineTexts == TextsOver(LineFrags, MaxLineFrags)

\* the texts parsed between store operations
SmallTexts == {ShopText, IsoText}

Pending == [status |-> 0]

StoreInit ==
    /\ category = << >>
    /\ account = << >>
    /\ transaction = << >>
    /\ req = [op |-> "none"]
    /\ resp = [status |-> 0]
    /\ parsed = [text |-> << >>, result |-> Pending]
    /\ now = 0
    /\ pc = [c \in Calls |-> "idle"]
    /\ k = [c \in Calls |-> 1]

StoreEmpty ==
    /\ category = << >>
    /\ account = << >>
    /\ transaction = << >>
    /\ req = [op |-> "none"]
    /\ resp = [status |-> 0]
    /\ now = 0
    /\ pc = [c \in Calls |-> "idle"]
    /\ k = [c \in Calls |-> 1]

(************************* the handlers, one request at a time *************)
Init == StoreInit

Next ==
    \/ \E payload \in AccountCreate : create_account(payload)
    \/ \E payload \in CategoryCreate : create_category(payload)
    \/ setup_defaults
    \/ \E payload \in TransactionCreate : create_transaction(payload)
    \/ \E limit \in 0..MaxLimit : list_transactions(limit)

Spec == Init /\ [][Next]_vars

(************************* parse_text between store operations *************)
NextPure ==
    \/ \E text \in SmallTexts : parse_text(text)
    \/ Tick
    \/ setup_defaults
    \/ \E payload \in TransactionCreate : create_transaction(payload)

SpecPure == Init /\ [][NextPure]_vars

(************************* concurrent setup_defaults ***********************)
NextRace ==
    \E c \in Calls :
        \/ Begin(c)
        \/ CountCategory(c)
        \/ InsertCategory(c)
        \/ CountAccount(c)
        \/ InsertAccount(c)
        \/ Return(c)

SpecRace == Init /\ [][NextRace]_vars

(************************* parse_text over the texts ***********************)
\* one request per behaviour: the text is drawn, then the handler answers it
InitAmount == StoreEmpty /\ \E t \in AmountTexts : parsed = [text |-> t, result |-> Pending]

InitDate == StoreEmpty /\ \E t \in DateTexts : parsed = [text |-> t, result |-> Pending]

InitLines == StoreEmpty /\ \E t \in LineTexts : parsed = [text |-> t, result |-> Pending]

NextParse == parsed.result = Pending /\ parse_text(parsed.text)

SpecAmount == InitAmount /\ [][NextParse]_vars

SpecDate == InitDate /\ [][NextParse]_vars

SpecLines == InitLines /\ [][NextParse]_vars

(************************* properties: the store ***************************)
DefaultNames == {defaults[i].name : i \in 1..Len(defaults)}

\* C1: a call of setup_defaults seeds the seven fixed categories exactly when
\* the category collection is empty at its check, and the Cash account
\* exactly when the account collection is empty at its check, each whatever
\* the state of the other collection; a collection that is not empty is left
\* as it is.  So, with no other writer of the two collections, the store
\* holds exactly 7 categories and 1 account after every call, the first as
\* well as the later ones.
C1_SeedOnlyWhenEmpty ==
    /\ [](  (/\ req.op = "setup_defaults"
             /\ \A i \in 1..Len(category) : category[i].name \in DefaultNames
             /\ \A i \in 1..Len(account) : account[i].name = "Cash")
          => Len(category) = 7 /\ Len(account) = 1)
    /\ [][ req'.op = "setup_defaults" =>
             /\ IF Len(category) = 0
                THEN /\ Len(category') = 7
                     /\ \A i \in 1..7 : /\ category'[i].name = defaults[i].name
                                        /\ category'[i].color = defaults[i].color
                                        /\ category'[i].icon = defaults[i].icon
                ELSE category' = category
             /\ IF Len(account) = 0
                THEN /\ Len(account') = 1
                     /\ account'[1].name = "Cash" /\ account'[1].type = "cash"
                     /\ account'[1].currency = "USD"
                ELSE account' = account
             /\ transaction' = transaction ]_vars

\* C1 witness: a call found the categories empty and the accounts not: it
\* seeded the seven categories and left the one account a user had created.
C1_Witness ==
    /\ req.op = "setup_defaults"
    /\ Len(category) = 7 /\ category[7].name = "Other"
    /\ Len(account) = 1 /\ account[1].name = "Visa"

\* C2: every stored transaction has amount >= 0, and the transaction a
\* create_transaction call has just stored carries the absolute value of the
\* submitted amount and the submitted direction and date, whatever the sign.
C2_StoredAmountIsMagnitude ==
    /\ \A i \in 1..Len(transaction) : transaction[i].amount >= 0
    /\ req.op = "create_transaction" =>
          LET doc == transaction[Len(transaction)]
          IN  /\ doc.amount \in {req.payload.amount, 0 - req.payload.amount}
              /\ doc.direction = req.payload.direction
              /\ doc.date = req.payload.date

\* C2 witness: a negative amount was submitted as an expense and is stored
\* as its magnitude, still an expense.
C2_Witness ==
    /\ req.op = "create_transaction"
    /\ req.payload.amount < 0 /\ req.payload.direction = "expense"
    /\ transaction[Len(transaction)].amount = 5
    /\ transaction[Len(transaction)].direction = "expense"

DistinctDates ==
    \A i, j \in 1..Len(transaction) : i # j => transaction[i].date # transaction[j].date

\* C3: with pairwise distinct stored dates and a limit N >= 1, the answer of
\* list_transactions holds exactly min(N, stored) transactions, each a stored
\* one, in strictly descending date order, no stored transaction left out
\* being later than a returned one; and the call leaves the store as it was.
C3_NewestFirstUpToLimit ==
    /\ []( (req.op = "list_transactions" /\ req.limit >= 1 /\ DistinctDates) =>
            LET body == resp.body
                returned == {body[i]._id[2] : i \in 1..Len(body)}
            IN  /\ Len(body) = Min(req.limit, Len(transaction))
                /\ \A i \in 1..Len(body) :
                      \E j \in 1..Len(transaction) :
                          /\ body[i]._id = <<"str", transaction[j]._id>>
                          /\ body[i].date = <<"iso", transaction[j].date>>
                          /\ body[i].amount = transaction[j].amount
                          /\ body[i].direction = transaction[j].direction
                /\ \A i \in 1..(Len(body) - 1) : body[i].date[2] > body[i + 1].date[2]
                /\ \A j \in 1..Len(transaction) :
                      transaction[j]._id \notin returned =>
                          \A i \in 1..Len(body) : transaction[j].date < body[i].date[2] )
    /\ [][ req'.op = "list_transactions" => store' = store ]_vars

\* C3 witness: three transactions of distinct dates are stored and limit=2
\* returned the two latest.
C3_Witness ==
    /\ req.op = "list_transactions" /\ req.limit = 2
    /\ Len(transaction) = 3 /\ DistinctDates
    /\ transaction[1].date = 3
    /\ Len(resp.body) = 2 /\ resp.body[1].date = <<"iso", 3>>

(************************* properties: parse_text **************************)
Answered == parsed.result # Pending

Accepted == Answered /\ parsed.result.status = 200

\* the text the handler works on
Text == Strip(parsed.text)

\* C4: parse_text answers 400 exactly when the text is empty or holds only
\* whitespace; every other text gets a result with date, amount, direction,
\* description and merchant.
C4_RejectsOnlyBlank ==
    Answered =>
        /\ parsed.result.status = 400 <=>
              \A i \in 1..Len(parsed.text) : parsed.text[i] \in Whitespace
        /\ parsed.result.status # 400 =>
              /\ parsed.result.status = 200
              /\ DOMAIN parsed.result =
                    {"status", "date", "amount", "direction", "description", "merchant"}

\* C4 witness: a text of several characters, all whitespace, was rejected.
C4_Witness ==
    /\ Answered /\ parsed.result.status = 400
    /\ Len(parsed.text) >= 2

\* a minus sign at position i that start-of-text or whitespace precedes
SignAt(t, i) == t[i] = "-" /\ (i = 1 \/ t[i - 1] \in Whitespace)

WithoutChar(t, i) == SubSeq(t, 1, i - 1) \o SubSeq(t, i + 1, Len(t))

\* the sign at i stands after a currency symbol and whitespace: "$ -"
AfterSymbolGap(t, i) ==
    \E j \in 1..(i - 2) : t[j] = "$" /\ \A m \in (j + 1)..(i - 1) : t[m] \in Whitespace

IncomeByText(t) ==
    \/ \E i \in 1..Len(t) : SignAt(t, i)
    \/ \E w \in IncomeWords : \E i \in 1..Len(t) :
          /\ i + Len(w) - 1 <= Len(t)
          /\ \A j \in 1..Len(w) : Lower(t[i + j - 1]) = w[j]

\* C5 as stated: direction is income exactly for a sign after start or
\* whitespace or one of the six words, and the amount is that of the text
\* without the sign (where that text is still one parse_text accepts).
C5_SignOnlyDirection ==
    Accepted =>
        /\ parsed.result.direction = (IF IncomeByText(parsed.text) THEN "income" ELSE "expense")
        /\ \A i \in 1..Len(Text) :
              (SignAt(Text, i) /\ ~Rejected(WithoutChar(Text, i))) =>
                  ParseResult(WithoutChar(Text, i), now).amount = parsed.result.amount

\* C5 amended: the same, the amounts being compared unless the sign stands
\* between a currency symbol followed by whitespace and the digits.
C5_SignOnlyDirectionOutsideGap ==
    Accepted =>
        /\ parsed.result.direction = (IF IncomeByText(parsed.text) THEN "income" ELSE "expense")
        /\ parsed.result.amount >= 0
        /\ \A i \in 1..Len(Text) :
              (/\ SignAt(Text, i) /\ ~AfterSymbolGap(Text, i)
               /\ ~Rejected(WithoutChar(Text, i))) =>
                  ParseResult(WithoutChar(Text, i), now).amount = parsed.result.amount

\* C5 witness: a text whose only mark of income is its sign, with an amount,
\* was answered income.
C5_Witness ==
    /\ Accepted
    /\ parsed.result.direction = "income" /\ parsed.result.amount = 234550
    /\ \A w \in IncomeWords : ~ContainsAnyCase(parsed.text, w)
    /\ \E i \in 1..Len(Text) : SignAt(Text, i) /\ ~AfterSymbolGap(Text, i)

\* the number with two decimals that stands at p, in hundredths
NumberValue(t, p) ==
    FloatCents(RemoveCommas(SubSeq(t, Number(t, p)[1], Number(t, p)[2] - 1)))

\* a currency symbol at i, then the number at p (whitespace may separate them)
SymbolNumber(t, i, p) ==
    /\ t[i] = "$" /\ p > i /\ Number(t, p) # << >>
    /\ \A m \in (i + 1)..(p - 1) : t[m] \in Whitespace

\* C6: the amount is never negative; if the text holds a number with two
\* decimals after a currency symbol, the amount is the first such number,
\* wherever bare numbers stand; otherwise it is the first bare number with
\* two decimals, separators removed; otherwise it is 0.
C6_AmountByPatternPriority ==
    Accepted =>
        LET t == Text
            sym == {i \in 1..Len(t) : \E p \in 1..Len(t) : SymbolNumber(t, i, p)}
            bare == {p \in 1..Len(t) : Number(t, p) # << >>}
        IN  /\ parsed.result.amount >= 0
            /\ sym # {} =>
                  \E p \in 1..Len(t) :
                      /\ SymbolNumber(t, LeastOf(sym), p)
                      /\ parsed.result.amount = NumberValue(t, p)
            /\ (sym = {} /\ bare # {}) =>
                  parsed.result.amount = NumberValue(t, LeastOf(bare))
            /\ (sym = {} /\ bare = {}) => parsed.result.amount = 0

\* C6 witness: a bare number stands before a number after a currency symbol,
\* and the amount is the latter.
C6_Witness ==
    /\ Accepted
    /\ \E p, i \in 1..Len(Text) :
          /\ p < i /\ Number(Text, p) # << >> /\ SymbolNumber(Text, i, i + 1)
          /\ NumberValue(Text, p) = 234550 /\ NumberValue(Text, i + 1) = 100
    /\ parsed.result.amount = 100

\* the first match of a date pattern, commas removed: what the formats are
\* tried on (<< >> when the pattern matches nowhere)
Candidate(pat, t) ==
    IF SearchDate(pat, t) = << >> THEN << >>
    ELSE RemoveCommas(SubSeq(t, SearchDate(pat, t)[1], SearchDate(pat, t)[2] - 1))

\* the formats that parse raw
Parsing(raw) == {f \in 1..Len(date_formats) : strptime(raw, date_formats[f]) # << >>}

Day(y, m, d) == <<"iso", [year |-> y, month |-> m, day |-> d, time |-> 0]>>

SlashBothWays == <<"0", "1", "/", "0", "2", "/", "2", "0", "2", "5">>

SlashMonthFirst == <<"0", "3", "/", "1", "5", "/", "2", "0", "2", "5">>

\* C7: the date is that of the first pattern, in the order ISO, slash,
\* month name, whose first match in the text parses under some format, read
\* by the first format of the list that parses it; with no such pattern it
\* is the clock reading.  So 01/02/2025 is 1 February, 03/15/2025 is
\* 15 March, and a valid ISO date wins wherever it stands.
C7_DateByPatternThenFormat ==
    Accepted =>
        LET order == <<"iso", "slash", "month">>
            ok == {i \in 1..3 : Candidate(order[i], Text) # << >>
                                /\ Parsing(Candidate(order[i], Text)) # {}}
            raw == Candidate(order[LeastOf(ok)], Text)
        IN  /\ ok = {} => parsed.result.date = <<"iso", Today(now)>>
            /\ ok # {} =>
                  parsed.result.date =
                      <<"iso", strptime(raw, date_formats[LeastOf(Parsing(raw))])[1]>>
            /\ Text = SlashBothWays => parsed.result.date = Day(2025, 2, 1)
            /\ Text = SlashMonthFirst => parsed.result.date = Day(2025, 3, 15)
            /\ (\E i \in 1..Len(Text) : StartsAt(Text, i, IsoText)
                  /\ \A j \in 1..(i - 1) : IsoDateAt(Text, j) = << >>)
                  => parsed.result.date = Day(2025, 1, 31)

\* C7 witness: a slash date stands before an ISO date and the ISO date is
\* the answer.
C7_Witness ==
    /\ Accepted
    /\ Text = SlashMonthFirst \o IsoText
    /\ parsed.result.date = Day(2025, 1, 31)

IsPrefix(m, d) == Len(m) <= Len(d) /\ \A i \in 1..Len(m) : m[i] = d[i]

\* C8: the description is the first trimmed non-blank line that holds neither
\* a date-like substring nor a label word, and the first trimmed non-blank
\* line when every line holds one; it is never empty.  The merchant is the
\* description up to its first " - ", cut to 80 characters: a non-empty
\* prefix of the description.
C8_DescriptionAndMerchant ==
    Accepted =>
        LET lines == Lines(Text)
            clean == {i \in 1..Len(lines) : ~DateLike(lines[i]) /\ ~HasLabel(lines[i])}
            d == parsed.result.description
            m == parsed.result.merchant
            seps == {i \in 1..Len(d) : StartsAt(d, i, Separator)}
            cut == IF seps = {} THEN Len(d) ELSE LeastOf(seps) - 1
        IN  /\ lines # << >>
            /\ d = (IF clean = {} THEN lines[1] ELSE lines[LeastOf(clean)])
            /\ d # << >>
            /\ \A i \in 1..Len(lines) :
                  /\ lines[i] # << >>
                  /\ lines[i][1] \notin Whitespace /\ lines[i][Len(lines[i])] \notin Whitespace
                  /\ "\n" \notin Range(lines[i])
            /\ m # None /\ m # << >> /\ IsPrefix(m, d)
            /\ Len(m) = Min(80, cut)

\* C8 witness: the first line holds a label word, the second is the
\* description.
C8_Witness ==
    /\ Accepted
    /\ Len(Lines(Text)) = 2
    /\ HasLabel(Lines(Text)[1])
    /\ parsed.result.description = Lines(Text)[2]
    /\ parsed.result.description # Lines(Text)[1]

\* C9 as stated: a call of parse_text with the text of the call before it
\* returns the result of the call before it, whatever happened to the store
\* and the clock in between, and no call changes a collection.
C9_PureFunctionOfText ==
    [][ /\ (Answered /\ parsed'.text = parsed.text) => parsed'.result = parsed.result
        /\ parsed' # parsed => store' = store ]_vars

\* C9 amended: the same, the dates being compared only when the text holds
\* a date that parses (otherwise each call returns its own clock reading).
C9_PureButForClockFallback ==
    [][ /\ (Answered /\ parsed'.text = parsed.text) =>
              /\ parsed'.result.status = parsed.result.status
              /\ parsed.result.status = 200 =>
                    /\ parsed'.result.amount = parsed.result.amount
                    /\ parsed'.result.direction = parsed.result.direction
                    /\ parsed'.result.description = parsed.result.description
                    /\ parsed'.result.merchant = parsed.result.merchant
                    /\ \/ parsed'.result.date = parsed.result.date
                       \/ \A pat \in {"iso", "slash", "month"} :
                             \/ Candidate(pat, Text) = << >>
                             \/ Parsing(Candidate(pat, Text)) = {}
        /\ parsed' # parsed => store' = store ]_vars

\* C9 witness: the answer to a text with a date was given at the first clock
\* reading; the clock has moved and the store has been written since.
C9_Witness ==
    /\ Accepted /\ parsed.text = IsoText
    /\ parsed.result.date = Day(2025, 1, 31)
    /\ now > 0
    /\ Len(transaction) > 0 /\ Len(category) > 0

(************************* properties: concurrent setup_defaults ***********)
\* C10: when every concurrent call of setup_defaults has returned, the store
\* holds exactly 7 categories and exactly 1 account.
C10_NoDoubleSeed ==
    (\A c \in Calls : pc[c] = "done") => Len(category) = 7 /\ Len(account) = 1

====
